---- MODULE Spec2Model ----
(***************************************************************************)
(* A model of pymodis/modislc.py: the MCD12Q1 accessor.                    *)
(*                                                                         *)
(* Text (paths, the structure metadata) is a sequence of one-character     *)
(* strings.  Floating-point values are exact rationals or one of the IEEE  *)
(* specials: <<"fin", n, d>> (n/d in lowest terms, d > 0), <<"inf", 1, 1>>,*)
(* <<"inf", -1, 1>> and <<"nan", 0, 1>>.  Rounding is abstracted away; the *)
(* behaviour of the specials is kept.                                      *)
(***************************************************************************)
EXTENDS Integers, Sequences, FiniteSets, TLC

VARIABLES pc, filepath, file, self, sd, locals, ret, calls, endCalls, staleUses

vars == <<pc, filepath, file, self, sd, locals, ret, calls, endCalls, staleUses>>

-----------------------------------------------------------------------------
(* Bounds of the model                                                     *)

\* Side of the pixel grid.  The product's value is 2400 (modislc.py:57); the
\* model interpolates and projects a grid of this smaller side.
npixels == 3

\* Calls (get, explicit __del__) a caller makes on one accessor.
MaxCalls == 3

-----------------------------------------------------------------------------
(* Python built-ins used by the module                                     *)

Min(S) == CHOOSE x \in S : \A y \in S : x <= y

Abs(n) == IF n < 0 THEN -n ELSE n

\* A slice index as Python normalises it: negative counts from the end,
\* and the result is clamped to 0..len.
PyIndex(i, len) ==
    IF i < 0 THEN (IF i + len < 0 THEN 0 ELSE i + len)
             ELSE (IF i > len THEN len ELSE i)

\* s[a:b]
PySlice(s, a, b) ==
    LET lo == PyIndex(a, Len(s))
        hi == PyIndex(b, Len(s))
    IN  IF lo >= hi THEN << >> ELSE SubSeq(s, lo + 1, hi)

\* s.find(sub, start): lowest 0-based index >= start where sub occurs, or -1.
PyFind(s, sub, start) ==
    LET st    == PyIndex(start, Len(s))
        cands == { i \in st .. (Len(s) - Len(sub)) :
                     \A k \in 1 .. Len(sub) : s[i + k] = sub[k] }
    IN  IF cands = {} THEN -1 ELSE Min(cands)

\* s.split(sep) for a one-character separator: always at least one piece.
RECURSIVE PySplit(_, _)
PySplit(s, sep) ==
    LET hits == { i \in 1 .. Len(s) : s[i] = sep }
    IN  IF hits = {} THEN << s >>
        ELSE LET i == Min(hits)
             IN  << SubSeq(s, 1, i - 1) >> \o PySplit(SubSeq(s, i + 1, Len(s)), sep)

DigitValue(c) ==
    CASE c = "0" -> 0 [] c = "1" -> 1 [] c = "2" -> 2 [] c = "3" -> 3
      [] c = "4" -> 4 [] c = "5" -> 5 [] c = "6" -> 6 [] c = "7" -> 7
      [] c = "8" -> 8 [] c = "9" -> 9 [] OTHER -> -1

IsDigits(s) == Len(s) > 0 /\ \A i \in 1 .. Len(s) : DigitValue(s[i]) >= 0

RECURSIVE DecValue(_)
DecValue(s) ==
    IF Len(s) = 0 THEN 0
    ELSE 10 * DecValue(SubSeq(s, 1, Len(s) - 1)) + DigitValue(s[Len(s)])

\* int(s).  On the alphabet of the paths (digits, letters, "." and "/") the
\* accepted texts are the non-empty digit strings; anything else is a
\* ValueError.
PyInt(s) ==
    IF IsDigits(s) THEN [exc |-> "none", value |-> DecValue(s)]
                   ELSE [exc |-> "ValueError", value |-> 0]

-----------------------------------------------------------------------------
(* Floating-point values                                                   *)

Fin(n)  == <<"fin", n, 1>>
PosInf  == <<"inf", 1, 1>>
NegInf  == <<"inf", -1, 1>>
NaN     == <<"nan", 0, 1>>

IsFin(a) == a[1] = "fin"
IsInf(a) == a[1] = "inf"
IsNaN(a) == a[1] = "nan"

RECURSIVE GCD(_, _)
GCD(a, b) == IF b = 0 THEN a ELSE GCD(b, a % b)

Norm(n, d) ==
    LET g == GCD(Abs(n), d) IN <<"fin", n \div g, d \div g>>

FNeg(a) == IF IsNaN(a) THEN NaN ELSE <<a[1], -a[2], a[3]>>

FAdd(a, b) ==
    IF IsNaN(a) \/ IsNaN(b) THEN NaN
    ELSE IF IsInf(a) /\ IsInf(b) THEN (IF a[2] = b[2] THEN a ELSE NaN)
    ELSE IF IsInf(a) THEN a
    ELSE IF IsInf(b) THEN b
    ELSE Norm(a[2] * b[3] + b[2] * a[3], a[3] * b[3])

FSub(a, b) == FAdd(a, FNeg(b))

FMul(a, b) ==
    IF IsNaN(a) \/ IsNaN(b) THEN NaN
    ELSE IF IsInf(a) \/ IsInf(b)
         THEN (IF a[2] = 0 \/ b[2] = 0 THEN NaN
               ELSE IF (a[2] > 0) = (b[2] > 0) THEN PosInf ELSE NegInf)
    ELSE Norm(a[2] * b[2], a[3] * b[3])

\* a / k for an integer k > 0
FDivInt(a, k) ==
    IF IsFin(a) THEN Norm(a[2], a[3] * k) ELSE a

\* IEEE comparisons: every comparison with NaN is false.
FEq(a, b) == ~IsNaN(a) /\ ~IsNaN(b) /\ a = b

FLe(a, b) ==
    /\ ~IsNaN(a) /\ ~IsNaN(b)
    /\ \/ a = b
       \/ IsInf(a) /\ a[2] < 0
       \/ IsInf(b) /\ b[2] > 0
       \/ IsFin(a) /\ IsFin(b) /\ a[2] * b[3] <= b[2] * a[3]

\* float(s) as numpy.array(..., dtype="float") applies it to one piece.  On
\* the alphabet of the structure texts (digits, ",", "(", ")", "=", "X" and
\* the letters of the two markers, with "e" never between digits) the
\* accepted texts are the non-empty digit strings and "inf".
PyFloat(s) ==
    IF IsDigits(s) THEN [exc |-> "none", value |-> Fin(DecValue(s))]
    ELSE IF s = <<"i", "n", "f">> THEN [exc |-> "none", value |-> PosInf]
    ELSE [exc |-> "ValueError", value |-> NaN]

\* [a, b] = numpy.array(text.split(","), dtype="float"): every piece must
\* convert and there must be exactly two of them.
ParsePair(text) ==
    LET pieces == PySplit(text, ",")
        vals   == [i \in 1 .. Len(pieces) |-> PyFloat(pieces[i])]
    IN  IF (\E i \in 1 .. Len(pieces) : vals[i].exc # "none") \/ Len(pieces) # 2
        THEN [exc |-> "ValueError", a |-> NaN, b |-> NaN]
        ELSE [exc |-> "none", a |-> vals[1].value, b |-> vals[2].value]

\* Linspace as it would be with endpoint=False: the step is delta / num and
\* the last entry is not set to stop.
LinspaceNoEndpoint(start, stop, num) ==
    LET delta == FSub(stop, start)
        step  == FDivInt(delta, num)
    IN  [i \in 1 .. num |-> FAdd(FMul(Fin(i - 1), step), start)]

\* numpy.linspace(start, stop, num, endpoint=True) for num > 1:
\*   div = num - 1; delta = stop - start; y = arange(0, num);
\*   step = delta / div;
\*   if step == 0: y = y / div; y = y * delta   else: y = y * step
\*   y += start; y[-1] = stop
Linspace(start, stop, num) ==
    LET div   == num - 1
        delta == FSub(stop, start)
        step  == FDivInt(delta, div)
        y(i)  == IF step = Fin(0)
                 THEN FMul(FDivInt(Fin(i), div), delta)
                 ELSE FMul(Fin(i), step)
    IN  [i \in 1 .. num |-> IF i = num THEN stop ELSE FAdd(y(i - 1), start)]

\* numpy.meshgrid(x1, y1) with the default "xy" indexing: both results have
\* len(y1) rows and len(x1) columns, x2[i][j] = x1[j] and y2[i][j] = y1[i].
Meshgrid(x1, y1) ==
    [x2 |-> [i \in 1 .. Len(y1) |-> [j \in 1 .. Len(x1) |-> x1[j]]],
     y2 |-> [i \in 1 .. Len(y1) |-> [j \in 1 .. Len(x1) |-> y1[i]]]]

\* modis_grid(x2, y2, inverse=True): the projection library maps the planar
\* grids cell by cell.  The longitude and latitude of a planar point are kept
\* as terms over that point.
ProjInverse(x2, y2) ==
    [lons |-> [i \in 1 .. Len(x2) |-> [j \in 1 .. Len(x2[i]) |->
                  <<"lon", x2[i][j], y2[i][j]>>]],
     lats |-> [i \in 1 .. Len(x2) |-> [j \in 1 .. Len(x2[i]) |->
                  <<"lat", x2[i][j], y2[i][j]>>]]]

-----------------------------------------------------------------------------
(* The legend tables and the colour map, as the source writes them          *)

\* A string literal "code - label".  A string is kept as the sequence of the
\* "code - label" segments it holds, so that concatenating two literals
\* gives a string holding two segments.
L(code, label) == << <<code, label>> >>

\* Python joins adjacent string literals (no comma between them) into one
\* string: an element written as several literals is their concatenation.
RECURSIVE ConcatLiterals(_)
ConcatLiterals(lits) ==
    IF Len(lits) = 0 THEN << >>
    ELSE lits[1] \o ConcatLiterals(SubSeq(lits, 2, Len(lits)))

\* The value of a list display whose k-th element is written as the
\* literals src[k].
ListDisplay(src) == [k \in 1 .. Len(src) |-> ConcatLiterals(src[k])]

lc1_legend ==
    ListDisplay(<<
      <<L(1, "Evergreen Needleleaf Forests")>>, <<L(2, "Evergreen Broadleaf Forests")>>,
      <<L(3, "Deciduous Needleleaf Forests")>>, <<L(4, "Deciduous Broadleaf Forests")>>,
      <<L(5, "Mixed Forests")>>, <<L(6, "Closed Shrublands")>>, <<L(7, "Open Shrublands")>>,
      <<L(8, "Woody Savannas")>>, <<L(9, "Savannas")>>, <<L(10, "Grasslands")>>,
      <<L(11, "Permanent Wetlands")>>, <<L(12, "Croplands")>>, <<L(13, "Urban and Built-up")>>,
      <<L(14, "Cropland/Natural Vegetation Mosaics")>>, <<L(15, "Permanent Snow and Ice")>>,
      <<L(16, "Barren")>>, <<L(17, "Water Bodies")>>, <<L(255, "Unclassified")>> >>)

lc1_cmap ==
    << "darkgreen", "forestgreen", "darkolivegreen",
       "olivedrab", "greenyellow", "olive", "darkkhaki", "darkorange", "orange",
       "yellow", "navy", "mediumorchid", "red", "mediumpurple", "lightcyan",
       "sienna", "blue", "grey" >>

lc2_legend ==
    ListDisplay(<<
      <<L(0, "Water bodies")>>, <<L(1, "Evergreen Needleleaf Forests")>>,
      <<L(2, "Evergreen Broadleaf Forests")>>, <<L(3, "Deciduous Needleleaf Forests")>>,
      <<L(4, "Deciduous Broadleaf Forests")>>,
      <<L(5, "Mixed Forests")>>, <<L(6, "Closed Shrublands")>>, <<L(7, "Open Shrublands")>>,
      <<L(8, "Woody Savannas")>>, <<L(9, "Savannas")>>, <<L(10, "Grasslands")>>,
      <<L(11, "Permanent Wetlands")>>, <<L(12, "Croplands")>>, <<L(13, "Urban and Built-up")>>,
      <<L(14, "Cropland/Natural Vegetation Mosaics")>>, <<L(15, "Non-Vegetated Lands")>>,
      <<L(255, "Unclassified")>> >>)

lc3_legend ==
    ListDisplay(<<
      <<L(0, "Water bodies")>>, <<L(1, "Grasslands")>>, <<L(2, "Shrublands")>>,
      <<L(3, "Broadleaf Croplands")>>, <<L(4, "Savannas")>>,
      <<L(5, "Evergreen Broadleaf Forests")>>,
      <<L(6, "Deciduous Broadleaf Forests")>>, <<L(7, "Evergreen Needleleaf Forests")>>,
      <<L(8, "Deciduous Needleleaf Forests")>>, <<L(9, "Non-vegetated Lands")>>,
      <<L(10, "Urban and Built-up Lands")>>, <<L(255, "Unclassified")>> >>)

lc4_legend ==
    ListDisplay(<<
      <<L(0, "Water bodies")>>, <<L(1, "Evergreen Needleleaf Vegetation")>>,
      <<L(2, "Evergreen Broadleaf Vegetation")>>, <<L(3, "Deciduous Broadleaf Vegetation")>>,
      <<L(4, "Deciduous Needleleaf Vegetation")>>, <<L(5, "Annual Broadleaf Vegetation")>>,
      <<L(6, "Annual Grass Vegetation")>>, <<L(7, "Non-vegetated Lands")>>,
      <<L(8, "Urban and Built-up Lands")>>, <<L(255, "Unclassified")>> >>)

\* Lines 135-136 of the source: no comma separates "8 - Broadleaf Croplands"
\* from "9 - Urban and Built-up Lands", so the two literals form one element.
lc5_legend ==
    ListDisplay(<<
      <<L(0, "Water bodies")>>, <<L(1, "Evergreen Needleleaf Trees")>>,
      <<L(2, "Evergreen Broadleaf Trees")>>, <<L(3, "Deciduous Broadleaf Trees")>>,
      <<L(4, "Deciduous Needleleaf Trees")>>, <<L(5, "Shrub")>>,
      <<L(6, "Grass")>>, <<L(7, "Cereal Croplands")>>,
      <<L(8, "Broadleaf Croplands"), L(9, "Urban and Built-up Lands")>>,
      <<L(10, "Permanent Snow and Ice")>>,
      <<L(11, "Barren")>>, <<L(255, "Unclassified")>> >>)

lp1_legend ==
    ListDisplay(<<
      <<L(1, "Barren")>>, <<L(2, "Permanent Snow and Ice")>>, <<L(3, "Water bodies")>>,
      <<L(11, "Evergreen Needleleaf Forests")>>, <<L(12, "Evergreen Broadleaf Forests")>>,
      <<L(13, "Deciduous Needleleaf Forests")>>, <<L(14, "Deciduous Broadleaf Forests")>>,
      <<L(15, "Mixed Broadleaf/Needleleaf Forests")>>,
      <<L(16, "Mixed Evergreen Broadleaf/Needleleaf Forests")>>, <<L(21, "Open Forests")>>,
      <<L(22, "Sparse Forests")>>, <<L(31, "Dense Herbaceous")>>, <<L(32, "Sparse Herbaceous")>>,
      <<L(41, "Dense Shrublands")>>, <<L(42, "Shrubland/Grassland Mosaics")>>,
      <<L(43, "Sparse Shrublands")>>, <<L(255, "Unclassified")>> >>)

lp2_legend ==
    ListDisplay(<<
      <<L(1, "Barren")>>, <<L(2, "Permanent Snow and Ice")>>, <<L(3, "Water Bodies")>>,
      <<L(9, "Urban and Built-up Lands")>>, <<L(10, "Dense Forests")>>, <<L(20, "Open Forests")>>,
      <<L(25, "Forest/Cropland Mosaics")>>, <<L(30, "Natural Herbaceous")>>,
      <<L(35, "natural Herbaceous/Croplands Mosaics")>>, <<L(36, "Herbaceous Croplands")>>,
      <<L(40, "Shrublands")>>, <<L(255, "Unclassified")>> >>)

lp3_legend ==
    ListDisplay(<<
      <<L(1, "Barren")>>, <<L(2, "Permanent Snow and Ice")>>, <<L(3, "Water Bodies")>>,
      <<L(10, "Dense Forests")>>, <<L(20, "Open Forests")>>, <<L(27, "Woody Wetlands")>>,
      <<L(30, "Grasslands")>>, <<L(40, "Shrublands")>>, <<L(50, "Herbaceous Wetlands")>>,
      <<L(51, "Tundra")>>, <<L(255, "Unclassified")>> >>)

qc_legend ==
    ListDisplay(<<
      <<L(0, "Classified Land")>>, <<L(1, "Unclassified Land")>>,
      <<L(2, "Classified Water")>>, <<L(3, "Unclassified Water")>>,
      <<L(4, "Classified Sea Ice")>>, <<L(5, "Misclassified water")>>,
      <<L(6, "Omitted Snow/Ice")>>, <<L(7, "Misclassified Snow/Ice")>>,
      <<L(8, "Backfilled Label")>>, <<L(9, "Forest Type Changed")>>,
      <<L(10, "No Data")>> >>)

-----------------------------------------------------------------------------
(* The inputs: paths and files                                             *)

\* "UpperLeftPointMtrs=("
UpperLeftMarker ==
    << "U","p","p","e","r","L","e","f","t","P","o","i","n","t",
       "M","t","r","s","=","(" >>

\* "LowerRightMtrs=("
LowerRightMarker ==
    << "L","o","w","e","r","R","i","g","h","t","M","t","r","s","=","(" >>

\* Texts written between a marker and its ")".
UpperLeftTexts ==
    { << "1", ",", "2" >>, << "2", ",", "1" >>, << "2", ",", "2" >>,
      << "i","n","f", ",", "1" >>, << "1", ",", "X" >> }

LowerRightTexts ==
    { << "1", ",", "2" >>, << "2", "1", ",", "1" >>,
      << "1","1","1","1", ",", "2" >>, << "1" >> }

\* Structure-metadata strings: padding, an upper-left entry or none, a
\* lower-right entry (closed by ")" or not) or none.
Structures ==
    { pre \o ul \o lr :
        pre \in { << >>, << "X" >> },
        ul  \in { << >> } \cup { UpperLeftMarker \o t \o << ")" >> : t \in UpperLeftTexts },
        lr  \in { << >> } \cup { LowerRightMarker \o t \o c :
                                   t \in LowerRightTexts, c \in { << ")" >>, << >> } } }

\* Datasets of a file: name -> stored array (rows of values).
DatasetTables ==
    { [LC_Type1 |-> << <<1, 2>>, <<17, 255>> >>, QC |-> << <<0, 1, 10>> >>],
      [LC_Type1 |-> << <<5>> >>] }

VarNames == { "LC_Type1", "QC", "NoSuchVar" }

\* A file as the HDF reader sees it: whether SD.SD() can open it, its global
\* attributes and its datasets.
Files ==
    { [openable |-> FALSE, attributes |-> [n \in {} |-> << >>],
       datasets |-> [n \in {} |-> << >>]] }
    \cup
    { [openable |-> TRUE, attributes |-> a, datasets |-> d] :
        a \in { [n \in {"CoreMetadata.0"} |-> << "X" >>],
                [n \in {"StructMetadata.0"} |-> << "X" >>] },
        d \in DatasetTables }
    \cup
    { [openable |-> TRUE,
       attributes |-> [n \in {"StructMetadata.0", "CoreMetadata.0"} |->
                          IF n = "StructMetadata.0" THEN st ELSE << "X" >>],
       datasets |-> d] :
        st \in Structures, d \in DatasetTables }

\* Paths: a prefix ("MCD12Q1.A2001001.h" or "d/h"), two characters, "v", two
\* characters and the 22 characters that follow the tile in a product file
\* name (".006.2018142182353.hdf"); and paths shorter than 27 characters.
PathPrefixes ==
    { << "M","C","D","1","2","Q","1",".","A","2","0","0","1","0","0","1",".","h" >>,
      << "d", "/", "h" >> }

PathSuffixes ==
    { << ".","0","0","6",".","2","0","1","8","1","4","2","1","8","2","3","5","3",
         ".","h","d","f" >>,
      << ".","0","6","1",".","2","0","2","2","1","4","6","0","3","3","5","1","9",
         ".","h","d","f" >> }

TileTexts == { << "0", "9" >>, << "3", "5" >>, << "h", "0" >> }

Paths ==
    { pre \o hh \o << "v" >> \o vv \o suf :
        pre \in PathPrefixes, hh \in TileTexts, vv \in TileTexts, suf \in PathSuffixes }
    \cup { << "h","0","9","v","0","5",".","h","d","f" >> }
    \cup { << "9","v","0","5" >> \o suf : suf \in PathSuffixes }

-----------------------------------------------------------------------------
(* The class MCD12Q1                                                       *)

NoLocals == [x_ul |-> NaN, y_ul |-> NaN, x_lr |-> NaN, y_lr |-> NaN,
             x1 |-> << >>, y1 |-> << >>, x2 |-> << >>, y2 |-> << >>]

\* Text between a marker and the next ")": structure[ind1+off:ind2] with
\* ind1 = structure.find(marker) and ind2 = structure.find(")", ind1).
MarkerText(structure, marker, off) ==
    LET dummy_ind1 == PyFind(structure, marker, 0)
        dummy_ind2 == PyFind(structure, << ")" >>, dummy_ind1)
    IN  PySlice(structure, dummy_ind1 + off, dummy_ind2)

\* The tile with the two slices exchanged.
TileOfSwapped(path) ==
    [h |-> PyInt(PySlice(path, -24, -22)), v |-> PyInt(PySlice(path, -27, -25))]

\* (int(filepath[-27:-25]), int(filepath[-24:-22]))
TileOf(path) ==
    [h |-> PyInt(PySlice(path, -27, -25)), v |-> PyInt(PySlice(path, -24, -22))]

\* __init__(self, filepath), run on the file f found at filepath.  The result
\* holds the attributes set when the constructor returned or raised, the
\* exception raised ("none" when it returned), the state of the SD object it
\* opened and its local variables.
MCD12Q1_init(path, f) ==
    LET s0 == [nhtiles |-> 36, nvtiles |-> 18, pixel_size |-> "463.312716525",
               npixels |-> npixels,
               proj |-> [proj |-> "sinusoidal", a |-> "6371007.181",
                         b |-> "6371007.181", units |-> "meters"]]
        h  == TileOf(path).h
        v  == TileOf(path).v
        s1 == s0 @@ [tile |-> <<h.value, v.value>>]
        s2 == s1 @@ [hfile |-> "SD"]
        s3 == s2 @@ [structure |-> f.attributes["StructMetadata.0"]]
        s4 == s3 @@ [meta |-> f.attributes["CoreMetadata.0"]]
        ul == ParsePair(MarkerText(s3.structure, UpperLeftMarker, 20))
        lr == ParsePair(MarkerText(s3.structure, LowerRightMarker, 16))
        x1 == Linspace(ul.a, lr.a, s0.npixels)
        y1 == Linspace(ul.b, lr.b, s0.npixels)
        xy == Meshgrid(x1, y1)
        ll == ProjInverse(xy.x2, xy.y2)
        s5 == s4 @@ [lons |-> ll.lons, lats |-> ll.lats]
        s6 == s5 @@ [lc1_legend |-> lc1_legend, lc1_cmap |-> lc1_cmap,
                     lc2_legend |-> lc2_legend, lc3_legend |-> lc3_legend,
                     lc4_legend |-> lc4_legend, lc5_legend |-> lc5_legend,
                     lp1_legend |-> lp1_legend, lp2_legend |-> lp2_legend,
                     lp3_legend |-> lp3_legend, qc_legend |-> qc_legend]
    IN  IF h.exc # "none" \/ v.exc # "none"
        THEN [self |-> s0, exc |-> "ValueError", sd |-> "none", locals |-> NoLocals]
        ELSE IF ~f.openable
        THEN [self |-> s1, exc |-> "HDF4Error", sd |-> "none", locals |-> NoLocals]
        ELSE IF "StructMetadata.0" \notin DOMAIN f.attributes
        THEN [self |-> s2, exc |-> "KeyError", sd |-> "open", locals |-> NoLocals]
        ELSE IF "CoreMetadata.0" \notin DOMAIN f.attributes
        THEN [self |-> s3, exc |-> "KeyError", sd |-> "open", locals |-> NoLocals]
        ELSE IF ul.exc # "none" \/ lr.exc # "none"
        THEN [self |-> s4, exc |-> "ValueError", sd |-> "open", locals |-> NoLocals]
        ELSE [self |-> s6, exc |-> "none", sd |-> "open",
              locals |-> [x_ul |-> ul.a, y_ul |-> ul.b, x_lr |-> lr.a, y_lr |-> lr.b,
                          x1 |-> x1, y1 |-> y1, x2 |-> xy.x2, y2 |-> xy.y2]]

\* get as it would be if it kept the array it read on the accessor.
MCD12Q1_get_caching(slf, sdstate, f, varname) ==
    IF sdstate # "open"
    THEN [self |-> slf, exc |-> "TypeError", value |-> << >>, stale |-> 1]
    ELSE IF varname \notin DOMAIN f.datasets
    THEN [self |-> slf, exc |-> "HDF4Error", value |-> << >>, stale |-> 0]
    ELSE [self |-> [cache |-> f.datasets[varname]] @@ slf, exc |-> "none",
          value |-> f.datasets[varname], stale |-> 0]

\* get as it would be if an unknown name gave an empty array.
MCD12Q1_get_default(slf, sdstate, f, varname) ==
    IF sdstate # "open"
    THEN [self |-> slf, exc |-> "TypeError", value |-> << >>, stale |-> 1]
    ELSE IF varname \notin DOMAIN f.datasets
    THEN [self |-> slf, exc |-> "none", value |-> << >>, stale |-> 0]
    ELSE [self |-> slf, exc |-> "none", value |-> f.datasets[varname], stale |-> 0]

\* get(self, varname): self.hfile.select(varname)[:].  There is no check of
\* the handle: on an SD object already ended the select is still made and the
\* library rejects it (stale = 1).  On an open one an unknown name is the
\* library's HDF4Error, a known one gives the whole stored array.
MCD12Q1_get(slf, sdstate, f, varname) ==
    IF sdstate # "open"
    THEN [self |-> slf, exc |-> "TypeError", value |-> << >>, stale |-> 1]
    ELSE IF varname \notin DOMAIN f.datasets
    THEN [self |-> slf, exc |-> "HDF4Error", value |-> << >>, stale |-> 0]
    ELSE [self |-> slf, exc |-> "none", value |-> f.datasets[varname], stale |-> 0]

\* A handler that catches the library's error only.
ExceptHDF4Error(raised) == IF raised = "HDF4Error" THEN "none" ELSE raised

\* try: ... except: pass -- whatever the body raised, nothing leaves.
ExceptPass(raised) == "none"

\* __del__ as it would be if it released the file only of an accessor whose
\* construction had completed.
MCD12Q1_del_if_complete(slf, sdstate, endFails) ==
    IF "lons" \in DOMAIN slf /\ sdstate = "open" /\ ~endFails
    THEN [self |-> slf, sd |-> "ended", exc |-> "none", caught |-> "none", ends |-> 1]
    ELSE [self |-> slf, sd |-> sdstate, exc |-> "none", caught |-> "none", ends |-> 0]

\* __del__(self): try: self.hfile.end() except: pass.  With no hfile
\* attribute the body raises AttributeError before any call.  Otherwise end()
\* is called whatever the state of the SD object: on an open one it releases
\* the file, or fails (endFails) and leaves it open; on an ended one the
\* library rejects the call.
MCD12Q1_del(slf, sdstate, endFails) ==
    LET body ==
          IF "hfile" \notin DOMAIN slf
          THEN [raised |-> "AttributeError", sd |-> sdstate, ends |-> 0]
          ELSE IF sdstate = "open" /\ ~endFails
          THEN [raised |-> "none", sd |-> "ended", ends |-> 1]
          ELSE IF sdstate = "open"
          THEN [raised |-> "HDF4Error", sd |-> "open", ends |-> 1]
          ELSE [raised |-> "TypeError", sd |-> sdstate, ends |-> 1]
    IN  [self |-> slf, sd |-> body.sd, exc |-> ExceptPass(body.raised),
         caught |-> body.raised, ends |-> body.ends]

-----------------------------------------------------------------------------
(* The state machine: one accessor, from construction to finalization      *)

NoRet == [op |-> "none", arg |-> "", exc |-> "none", caught |-> "none",
          value |-> << >>, sdBefore |-> "none"]

Init ==
    /\ pc = "start"
    /\ filepath \in Paths
    /\ file \in Files
    /\ self = [n \in {} |-> 0]
    /\ sd = "none"
    /\ locals = NoLocals
    /\ ret = NoRet
    /\ calls = 0
    /\ endCalls = 0
    /\ staleUses = 0

\* datafile = MCD12Q1(filepath)
Construct ==
    /\ pc = "start"
    /\ LET r == MCD12Q1_init(filepath, file)
       IN  /\ pc' = IF r.exc = "none" THEN "constructed" ELSE "failed"
           /\ self' = r.self
           /\ sd' = r.sd
           /\ locals' = r.locals
           /\ ret' = [NoRet EXCEPT !.op = "__init__", !.exc = r.exc]
    /\ UNCHANGED <<filepath, file, calls, endCalls, staleUses>>

\* datafile.get(varname)
Get ==
    /\ pc = "constructed"
    /\ calls < MaxCalls
    /\ \E varname \in VarNames :
         LET r == MCD12Q1_get(self, sd, file, varname)
         IN  /\ self' = r.self
             /\ ret' = [NoRet EXCEPT !.op = "get", !.arg = varname, !.exc = r.exc,
                                     !.value = r.value, !.sdBefore = sd]
             /\ staleUses' = staleUses + r.stale
    /\ calls' = calls + 1
    /\ UNCHANGED <<pc, filepath, file, sd, locals, endCalls>>

\* datafile.__del__() called by the caller, who keeps the accessor
ExplicitDel ==
    /\ pc = "constructed"
    /\ calls < MaxCalls
    /\ \E endFails \in BOOLEAN :
         LET r == MCD12Q1_del(self, sd, endFails)
         IN  /\ self' = r.self
             /\ sd' = r.sd
             /\ ret' = [NoRet EXCEPT !.op = "__del__", !.exc = r.exc,
                                     !.caught = r.caught, !.sdBefore = sd]
             /\ endCalls' = endCalls + r.ends
    /\ calls' = calls + 1
    /\ UNCHANGED <<pc, filepath, file, locals, staleUses>>

\* The interpreter finalizes the accessor: after the last reference is
\* dropped, or after __init__ raised.  __del__ runs and the object is gone.
Finalize ==
    /\ pc \in {"constructed", "failed"}
    /\ \E endFails \in BOOLEAN :
         LET r == MCD12Q1_del(self, sd, endFails)
         IN  /\ self' = r.self
             /\ sd' = r.sd
             /\ ret' = [NoRet EXCEPT !.op = "__del__", !.exc = r.exc,
                                     !.caught = r.caught, !.sdBefore = sd]
             /\ endCalls' = endCalls + r.ends
    /\ pc' = "finalized"
    /\ UNCHANGED <<filepath, file, locals, calls, staleUses>>

Next == Construct \/ Get \/ ExplicitDel \/ Finalize

Spec == Init /\ [][Next]_vars

-----------------------------------------------------------------------------
(* Properties                                                              *)

Constructed == "lons" \in DOMAIN self

Occurs(sub, s) ==
    \E i \in 0 .. (Len(s) - Len(sub)) : SubSeq(s, i + 1, i + Len(sub)) = sub

\* C1: when the structure-metadata string read from the file lacks the
\* marker "UpperLeftPointMtrs=(" or the marker "LowerRightMtrs=(",
\* construction fails with the format error (ValueError) and never completes
\* with grids.
C1_MissingMarkerFails ==
    ( /\ ret.op = "__init__"
      /\ "meta" \in DOMAIN self
      /\ \/ ~Occurs(UpperLeftMarker, self.structure)
         \/ ~Occurs(LowerRightMarker, self.structure) )
    => (pc = "failed" /\ ret.exc = "ValueError" /\ ~Constructed)

\* C2: over any sequence of teardowns of an accessor that holds a handle, the
\* handle's release operation (hfile.end()) is performed exactly once: later
\* teardowns perform no release on the handle.
C2_ReleasedExactlyOnce ==
    (ret.op = "__del__" /\ "hfile" \in DOMAIN self) => endCalls = 1

\* C3: teardown never raises to its caller, whatever the state of the handle:
\* open, already released, release failing, or never opened.
C3_TeardownNeverRaises ==
    ret.op = "__del__" => ret.exc = "none"

\* A teardown of an accessor whose construction failed before the open caught
\* the AttributeError of the missing hfile.
C3_Witness ==
    /\ ret.op = "__del__"
    /\ ret.caught = "AttributeError"
    /\ pc = "finalized"

C5_GetReturnsStored ==
    (ret.op = "get" /\ ret.sdBefore = "open") =>
        IF ret.arg \in DOMAIN file.datasets
        THEN ret.exc = "none" /\ ret.value = file.datasets[ret.arg]
        ELSE ret.exc = "HDF4Error"

\* A later call of a sequence that asked for an absent name.
C5_Witness ==
    /\ ret.op = "get"
    /\ ret.sdBefore = "open"
    /\ ret.arg \notin DOMAIN file.datasets
    /\ ret.exc = "HDF4Error"
    /\ calls >= 2

PathDigit(k) == DigitValue(filepath[Len(filepath) - k])

TwoDigitsAtOffsets ==
    /\ Len(filepath) >= 27
    /\ \A k \in {26, 25, 23, 22} : PathDigit(k) >= 0

\* C6: when the characters of the path at offsets -27..-25 and -24..-22 from
\* its end are two-digit decimal numbers, a successful construction sets the
\* tile to exactly that pair of integers.
C6_TileFromPath ==
    (Constructed /\ TwoDigitsAtOffsets) =>
        self.tile = << 10 * PathDigit(26) + PathDigit(25),
                       10 * PathDigit(23) + PathDigit(22) >>

\* Constructed from a path whose two numbers differ.
C6_Witness ==
    /\ Constructed
    /\ TwoDigitsAtOffsets
    /\ self.tile = <<9, 35>>

\* C7: no read is made through a handle already released: get is made while
\* the handle is open or is rejected without touching the handle.
C7_NoUseAfterRelease ==
    staleUses = 0

\* C8: a get leaves every attribute of the accessor and the state of the
\* handle unchanged; a teardown leaves every attribute of the accessor
\* unchanged.
C8_Frame ==
    [][ /\ ret'.op = "get" => (self' = self /\ sd' = sd)
        /\ ret'.op = "__del__" => self' = self ]_vars

\* A successful get on a constructed accessor.
C8_Witness ==
    /\ ret.op = "get"
    /\ ret.exc = "none"
    /\ Constructed

Monotone(seq, a, b) ==
    \A i, j \in 1 .. Len(seq) :
        i < j => IF FLe(a, b) THEN FLe(seq[i], seq[j]) ELSE FLe(seq[j], seq[i])

AxisOK(seq, a, b) ==
    /\ Len(seq) = npixels
    /\ FEq(seq[1], a)
    /\ FEq(seq[Len(seq)], b)
    /\ Monotone(seq, a, b)

GridOK ==
    /\ Len(locals.x1) = npixels /\ Len(locals.y1) = npixels
    /\ \A g \in {locals.x2, locals.y2, self.lons, self.lats} :
         /\ Len(g) = npixels
         /\ \A i \in 1 .. npixels : Len(g[i]) = npixels
    /\ \A i, j \in 1 .. npixels :
         /\ locals.x2[i][j] = locals.x1[j]
         /\ locals.y2[i][j] = locals.y1[i]
         /\ self.lons[i][j] = <<"lon", locals.x2[i][j], locals.y2[i][j]>>
         /\ self.lats[i][j] = <<"lat", locals.x2[i][j], locals.y2[i][j]>>

\* C9 (as claimed): for every parsed corner pair the x sequence has npixels
\* entries, starts at x_ul, ends at x_lr and is monotonic between them (the
\* same for y); the planar grid is npixels x npixels with cell [i,j] holding
\* (x[j], y[i]) and the longitude and latitude grids have that shape, cell
\* [i,j] derived from planar cell [i,j].
C9_GridFromCorners ==
    Constructed =>
        /\ AxisOK(locals.x1, locals.x_ul, locals.x_lr)
        /\ AxisOK(locals.y1, locals.y_ul, locals.y_lr)
        /\ GridOK

\* C9 (amended): the same, the first entry, last entry and monotonicity of
\* an axis being claimed only when both corner values of that axis are finite.
C9_GridFromFiniteCorners ==
    Constructed =>
        /\ (IsFin(locals.x_ul) /\ IsFin(locals.x_lr))
              => AxisOK(locals.x1, locals.x_ul, locals.x_lr)
        /\ (IsFin(locals.y_ul) /\ IsFin(locals.y_lr))
              => AxisOK(locals.y1, locals.y_ul, locals.y_lr)
        /\ GridOK

\* Constructed from finite corners, x increasing and y decreasing.
C9_Witness ==
    /\ Constructed
    /\ locals.x_ul = Fin(1) /\ locals.x_lr = Fin(21)
    /\ locals.y_ul = Fin(2) /\ locals.y_lr = Fin(1)

LegendNames ==
    { "lc1_legend", "lc2_legend", "lc3_legend", "lc4_legend", "lc5_legend",
      "lp1_legend", "lp2_legend", "lp3_legend", "qc_legend" }

EntryCodes(legend) == [k \in 1 .. Len(legend) |-> legend[k][1][1]]

\* C10: in every legend construction populates each entry holds exactly one
\* (code, label) pair; lc1_legend has 18 entries like lc1_cmap has colours,
\* and lc5_legend has one entry for each of the codes 0..11 and 255.
C10_LegendEntries ==
    Constructed =>
        /\ \A n \in LegendNames : \A k \in 1 .. Len(self[n]) : Len(self[n][k]) = 1
        /\ Len(self.lc1_legend) = 18 /\ Len(self.lc1_cmap) = 18
        /\ EntryCodes(self.lc5_legend) = <<0, 1, 2, 3, 4, 5, 6, 7, 8, 9, 10, 11, 255>>

====
